---- MODULE Spec2Model ----
(***************************************************************************)
(* Model of scripts/ipeds_data_cleaning.py: the clean_data command, which  *)
(* merges the data table and the value-label table of an IPEDS export,     *)
(* and its nested helper clean_column, which normalizes column names.      *)
(*                                                                         *)
(* A string is a sequence of one-character strings, so that substring      *)
(* search, str.replace, str.lower and re.sub are computed character by     *)
(* character as Python computes them.                                      *)
(***************************************************************************)
EXTENDS Integers, Sequences, FiniteSets, TLC

VARIABLES
    \* ---- one run of clean_data ----
    pc,               \* position in clean_data
    fault,            \* the exception that ended the run, or "none"
    namelist,         \* ZIPPED_FILE.namelist()
    dataContent,      \* content of the first member whose name contains "Data"
    labelContent,     \* content of the first member whose name contains "ValueLabels"
    DATA_FILE,        \* line 42
    VALUELABELS_FILE, \* lines 43-45
    data,             \* the DataFrame `data`
    value_labels,     \* the DataFrame `value_labels`
    var_names,        \* line 56, also the insertion order of `labels`
    labels,           \* the dict `labels`
    output,           \* the files written to OUTPUT_DIR, in order
    completed,        \* the steps of clean_data that have finished without a fault
    \* ---- calls of clean_column on one name ----
    col,              \* the argument
    steps,            \* the value of the chained expression after each call
    out,              \* clean_column(col)
    out2,             \* clean_column(clean_column(col))
    npc               \* "input", "cleaned", "recleaned", or "idle"

runVars == <<pc, fault, namelist, dataContent, labelContent, DATA_FILE,
             VALUELABELS_FILE, data, value_labels, var_names, labels, output,
             completed>>
normVars == <<col, steps, out, out2, npc>>
vars == <<runVars, normVars>>

----------------------------------------------------------------------------
(* Bounds of the model *)

MaxLen == 4
MaxRows == 1
MaxLabels == 2

----------------------------------------------------------------------------
(* Strings *)

Range(s) == {s[i] : i \in 1..Len(s)}

Distinct(s) == \A i, j \in 1..Len(s) : s[i] = s[j] => i = j

\* old occurs in s starting at position i
MatchAt(s, old, i) ==
    /\ i + Len(old) - 1 <= Len(s)
    /\ \A k \in 1..Len(old) : s[i + k - 1] = old[k]

\* Python's `old in s`
Contains(s, old) == \E i \in 1..(Len(s) + 1) : MatchAt(s, old, i)

StartsWith(s, old) == MatchAt(s, old, 1)

RECURSIVE ReplaceFrom(_, _, _, _)
ReplaceFrom(s, old, new, i) ==
    IF i > Len(s) THEN <<>>
    ELSE IF MatchAt(s, old, i)
         THEN new \o ReplaceFrom(s, old, new, i + Len(old))
         ELSE <<s[i]>> \o ReplaceFrom(s, old, new, i + 1)

\* Python's s.replace(old, new) for a non-empty old: the non-overlapping
\* occurrences of old, found left to right, are replaced; the result is not
\* scanned again.
Replace(s, old, new) == ReplaceFrom(s, old, new, 1)

UpperCase == <<"A", "B", "C", "D", "E", "F", "G", "H", "I", "J", "K", "L", "M",
               "N", "O", "P", "Q", "R", "S", "T", "U", "V", "W", "X", "Y", "Z">>
LowerCase == <<"a", "b", "c", "d", "e", "f", "g", "h", "i", "j", "k", "l", "m",
               "n", "o", "p", "q", "r", "s", "t", "u", "v", "w", "x", "y", "z">>

LowerChar(c) ==
    IF \E k \in 1..Len(UpperCase) : UpperCase[k] = c
    THEN LowerCase[CHOOSE k \in 1..Len(UpperCase) : UpperCase[k] = c]
    ELSE c

\* Python's s.lower(), on ASCII
Lower(s) == [i \in 1..Len(s) |-> LowerChar(s[i])]

IsParen(c) == c = "(" \/ c = ")"

\* the regular expression _\([^()]*\) matches s[i..j]
GroupAt(s, i, j) ==
    /\ i + 2 <= j
    /\ j <= Len(s)
    /\ s[i] = "_"
    /\ s[i + 1] = "("
    /\ s[j] = ")"
    /\ \A k \in (i + 2)..(j - 1) : ~IsParen(s[k])

RECURSIVE ReSubFrom(_, _)
ReSubFrom(s, i) ==
    IF i > Len(s) THEN <<>>
    ELSE IF \E j \in 1..Len(s) : GroupAt(s, i, j)
         THEN ReSubFrom(s, (CHOOSE j \in 1..Len(s) : GroupAt(s, i, j)) + 1)
         ELSE <<s[i]>> \o ReSubFrom(s, i + 1)

\* the same scan for the expression \([^()]*\), which lacks the underscore
NoUnderscoreGroupAt(s, i, j) ==
    /\ i + 1 <= j
    /\ j <= Len(s)
    /\ s[i] = "("
    /\ s[j] = ")"
    /\ \A k \in (i + 1)..(j - 1) : ~IsParen(s[k])

RECURSIVE ReSubNoUnderscoreFrom(_, _)
ReSubNoUnderscoreFrom(s, i) ==
    IF i > Len(s) THEN <<>>
    ELSE IF \E j \in 1..Len(s) : NoUnderscoreGroupAt(s, i, j)
         THEN ReSubNoUnderscoreFrom(s,
                  (CHOOSE j \in 1..Len(s) : NoUnderscoreGroupAt(s, i, j)) + 1)
         ELSE <<s[i]>> \o ReSubNoUnderscoreFrom(s, i + 1)

ReSubNoUnderscore(s) == ReSubNoUnderscoreFrom(s, 1)

\* re.sub("_\([^()]*\)", "", s): the non-overlapping matches, leftmost first,
\* are removed (line 100)
ReSub(s) == ReSubFrom(s, 1)

RECURSIVE CollapseAll(_)
CollapseAll(s) ==
    IF Contains(s, <<"_", "_">>)
    THEN CollapseAll(Replace(s, <<"_", "_">>, <<"_">>))
    ELSE s

\* .replace("__", "_") (line 88)
CollapseUnderscores(s) == Replace(s, <<"_", "_">>, <<"_">>)

----------------------------------------------------------------------------
(* The patterns of clean_column, lines 84-98 *)

Possessive == <<"'", "s">>
SpacedDash == <<" ", "-", " ">>
GraduationRate == <<"g", "r", "a", "d", "u", "a", "t", "i", "o", "n", "_", "r", "a", "t", "e">>
Gradrate == <<"g", "r", "a", "d", "r", "a", "t", "e">>
Within == <<"_", "w", "i", "t", "h", "i", "n", "_">>
TwoOrMoreRaces == <<"t", "w", "o", "_", "o", "r", "_", "m", "o", "r", "e", "_", "r", "a", "c", "e", "s">>
Multirace == <<"m", "u", "l", "t", "i", "r", "a", "c", "e">>
OfInstitution == <<"_", "o", "f", "_", "i", "n", "s", "t", "i", "t", "u", "t", "i", "o", "n">>
Location == <<"_", "l", "o", "c", "a", "t", "i", "o", "n">>
OrPostOfficeBox == <<"_", "o", "r", "_", "p", "o", "s", "t", "_", "o", "f", "f", "i", "c", "e", "_", "b", "o", "x">>
Of == <<"_", "o", "f", "_">>
ThatAre == <<"_", "t", "h", "a", "t", "_", "a", "r", "e", "_">>

PipelineLateLower(s) ==
    LET s1 == Replace(s, Possessive, <<>>)
        s2 == Replace(s1, SpacedDash, <<"_">>)
        s3 == Replace(s2, <<" ">>, <<"_">>)
        s4 == Replace(s3, <<"/">>, <<"-">>)
        s5 == CollapseUnderscores(s4)
        s6 == Replace(s5, GraduationRate, Gradrate)
        s7 == Replace(s6, Within, <<"_">>)
        s8 == Replace(s7, TwoOrMoreRaces, Multirace)
        s9 == Replace(s8, OfInstitution, <<>>)
        s10 == Replace(s9, Location, <<>>)
        s11 == Replace(s10, OrPostOfficeBox, <<>>)
        s12 == Replace(s11, Of, <<"_">>)
        s13 == Replace(s12, ThatAre, <<"_">>)
        s14 == Lower(s13)
        s15 == ReSub(s14)
    IN  <<s1, s2, s3, s4, s5, s6, s7, s8, s9, s10, s11, s12, s13, s14, s15>>

\* The value of the chained expression of clean_column after each of its
\* fifteen calls, in order: lines 84-98 and line 100.
Pipeline(s) ==
    LET s1 == Replace(s, Possessive, <<>>)
        s2 == Replace(s1, SpacedDash, <<"_">>)
        s3 == Replace(s2, <<" ">>, <<"_">>)
        s4 == Replace(s3, <<"/">>, <<"-">>)
        s5 == CollapseUnderscores(s4)
        s6 == Lower(s5)
        s7 == Replace(s6, GraduationRate, Gradrate)
        s8 == Replace(s7, Within, <<"_">>)
        s9 == Replace(s8, TwoOrMoreRaces, Multirace)
        s10 == Replace(s9, OfInstitution, <<>>)
        s11 == Replace(s10, Location, <<>>)
        s12 == Replace(s11, OrPostOfficeBox, <<>>)
        s13 == Replace(s12, Of, <<"_">>)
        s14 == Replace(s13, ThatAre, <<"_">>)
        s15 == ReSub(s14)
    IN  <<s1, s2, s3, s4, s5, s6, s7, s8, s9, s10, s11, s12, s13, s14, s15>>

\* clean_column(col), lines 70-102
clean_column(s) == Pipeline(s)[Len(Pipeline(s))]

----------------------------------------------------------------------------
(* Calls of clean_column: the names it is given *)

Alphabet == {"_", " ", "'", "s", "A", "/", "(", ")"}

RECURSIVE StringsOfLen(_)
StringsOfLen(n) ==
    IF n = 0 THEN {<<>>}
    ELSE {Append(s, c) : s \in StringsOfLen(n - 1), c \in Alphabet}

ShortNames == UNION {StringsOfLen(n) : n \in 0..MaxLen}

GraduationExample == <<"G", "r", "a", "d", "u", "a", "t", "i", "o", "n", " ", "R", "a", "t", "e", " ", "-", " ", "W", "o", "m", "e", "n", " ", "(", "2", "0", "2", "0", ")">>
GradrateWomen == <<"g", "r", "a", "d", "r", "a", "t", "e", "_", "w", "o", "m", "e", "n">>

\* names of the kind the export carries, and what the eight rewrites of the
\* specification, applied by hand in their order, make of them
Examples ==
    << [in |-> GraduationExample, want |-> GradrateWomen],
       [in |-> <<>>, want |-> <<>>],
       \* "State's Rate / Total" -> "state_rate_-_total"
       [in |-> <<"S", "t", "a", "t", "e", "'", "s", " ", "R", "a", "t", "e", " ", "/", " ", "T", "o", "t", "a", "l">>,
        want |-> <<"s", "t", "a", "t", "e", "_", "r", "a", "t", "e", "_", "-", "_", "t", "o", "t", "a", "l">>],
       \* "Percent of Women (A/B)" -> "percent_women"
       [in |-> <<"P", "e", "r", "c", "e", "n", "t", " ", "o", "f", " ", "W", "o", "m", "e", "n", " ", "(", "A", "/", "B", ")">>,
        want |-> <<"p", "e", "r", "c", "e", "n", "t", "_", "w", "o", "m", "e", "n">>],
       \* "City location of institution (HD2017)" -> "city"
       [in |-> <<"C", "i", "t", "y", " ", "l", "o", "c", "a", "t", "i", "o", "n", " ", "o", "f", " ", "i", "n", "s", "t", "i", "t", "u", "t", "i", "o", "n", " ", "(", "H", "D", "2", "0", "1", "7", ")">>,
        want |-> <<"c", "i", "t", "y">>],
       \* "x_of_of_y" -> "x_of_y"
       [in |-> <<"x", "_", "o", "f", "_", "o", "f", "_", "y">>,
        want |-> <<"x", "_", "o", "f", "_", "y">>] >>

ExampleNames == {Examples[k].in : k \in 1..Len(Examples)}

Names == ShortNames \cup ExampleNames

NormIdle ==
    /\ col = <<>>
    /\ steps = <<>>
    /\ out = <<>>
    /\ out2 = <<>>
    /\ npc = "idle"

\* clean_column is called on a name
CleanColumn ==
    /\ npc = "input"
    /\ steps' = Pipeline(col)
    /\ out' = clean_column(col)
    /\ npc' = "cleaned"
    /\ UNCHANGED <<col, out2>>
    /\ UNCHANGED runVars

\* clean_column is called on its own result
CleanAgain ==
    /\ npc = "cleaned"
    /\ out2' = clean_column(out)
    /\ npc' = "recleaned"
    /\ UNCHANGED <<col, steps, out>>
    /\ UNCHANGED runVars

InitNorm ==
    /\ col \in Names
    /\ steps = <<>>
    /\ out = <<>>
    /\ out2 = <<>>
    /\ npc = "input"
    /\ pc = "idle"
    /\ fault = "none"
    /\ namelist = <<>>
    /\ dataContent = [ok |-> FALSE, cols |-> <<>>, rows |-> <<>>]
    /\ labelContent = [ok |-> FALSE, recs |-> <<>>]
    /\ DATA_FILE = <<>>
    /\ VALUELABELS_FILE = <<>>
    /\ data = [cols |-> <<>>, rows |-> <<>>]
    /\ value_labels = <<>>
    /\ var_names = <<>>
    /\ labels = <<>>
    /\ output = <<>>
    /\ completed = {}

NextNorm == CleanColumn \/ CleanAgain

SpecNorm == InitNorm /\ [][NextNorm]_vars

----------------------------------------------------------------------------
(* One run of clean_data: the inputs *)

DataName == <<"D", "a", "t", "a">>
ValueLabelsName == <<"V", "a", "l", "u", "e", "L", "a", "b", "e", "l", "s">>
Unnamed == <<"U", "n", "n", "a", "m", "e", "d">>

\* what Series.map leaves where the dict has no entry
NA == "NaN"

DataCsv == <<"D", "a", "t", "a", "_", "1", ".", "c", "s", "v">>
LabelsCsv == <<"V", "a", "l", "u", "e", "L", "a", "b", "e", "l", "s", "_", "1", ".", "c", "s", "v">>
LowerDataCsv == <<"d", "a", "t", "a", "2", "0", "2", "0", ".", "c", "s", "v">>

Archives ==
    { <<DataCsv, LabelsCsv>>,
      <<LowerDataCsv, LabelsCsv>>,
      <<DataCsv>> }

Sector == <<"S", "E", "C", "T", "O", "R">>
SectorLower == <<"s", "e", "c", "t", "o", "r">>
Control == <<"C", "O", "N", "T", "R", "O", "L">>
UnnamedTwo == <<"U", "n", "n", "a", "m", "e", "d", ":", " ", "2">>
IsUnnamed == <<"I", "s", " ", "U", "n", "n", "a", "m", "e", "d">>

\* header rows of the data file; read_csv makes the names of a header distinct
Headers ==
    { <<Sector>>,
      <<Control>>,
      <<Sector, SectorLower>>,
      <<Sector, IsUnnamed>>,
      <<Control, Sector>>,
      <<Control, Sector, UnnamedTwo>> }

CellValues == {"1", "2"}

RowsOf(h) ==
    UNION {[1..n -> [1..Len(h) -> CellValues]] : n \in 0..MaxRows}

DataFiles ==
    UNION {{[ok |-> TRUE, cols |-> h, rows |-> r] : r \in RowsOf(h)} : h \in Headers}

Malformed == [ok |-> FALSE, cols |-> <<>>, rows |-> <<>>]

RecordPool ==
    { [VariableName |-> Sector, Value |-> "1", ValueLabel |-> "Public"],
      [VariableName |-> Sector, Value |-> "1", ValueLabel |-> "Private"],
      [VariableName |-> Sector, Value |-> "2", ValueLabel |-> "Private"],
      [VariableName |-> Control, Value |-> "1", ValueLabel |-> "Public"],
      [VariableName |-> Control, Value |-> "2", ValueLabel |-> "Private"],
      [VariableName |-> UnnamedTwo, Value |-> "1", ValueLabel |-> "Public"] }

LabelFiles ==
    {[ok |-> TRUE, recs |-> r] : r \in UNION {[1..n -> RecordPool] : n \in 0..MaxLabels}}

MalformedLabels == [ok |-> FALSE, recs |-> <<>>]

HasMember(names, pat) == \E i \in 1..Len(names) : Contains(names[i], pat)

Init ==
    /\ pc = "start"
    /\ fault = "none"
    /\ namelist \in Archives
    /\ dataContent \in
         IF HasMember(namelist, DataName)
         THEN DataFiles \cup {Malformed}
         ELSE {Malformed}
    /\ labelContent \in
         IF HasMember(namelist, ValueLabelsName)
         THEN LabelFiles \cup {MalformedLabels}
         ELSE {MalformedLabels}
    /\ DATA_FILE = <<>>
    /\ VALUELABELS_FILE = <<>>
    /\ data = [cols |-> <<>>, rows |-> <<>>]
    /\ value_labels = <<>>
    /\ var_names = <<>>
    /\ labels = <<>>
    /\ output = <<>>
    /\ completed = {}
    /\ NormIdle

----------------------------------------------------------------------------
(* One run of clean_data: the steps *)

\* [file for file in ZIPPED_FILE.namelist() if pat in file]
Matching(names, pat) == SelectSeq(names, LAMBDA f : Contains(f, pat))

\* lines 40-45: an empty selection indexed with [0] raises IndexError
OpenArchive ==
    /\ pc = "start"
    /\ IF Matching(namelist, DataName) = <<>>
       THEN /\ pc' = "abort"
            /\ fault' = "IndexError"
            /\ UNCHANGED <<DATA_FILE, VALUELABELS_FILE, completed>>
       ELSE IF Matching(namelist, ValueLabelsName) = <<>>
            THEN /\ pc' = "abort"
                 /\ fault' = "IndexError"
                 /\ DATA_FILE' = Matching(namelist, DataName)[1]
                 /\ UNCHANGED <<VALUELABELS_FILE, completed>>
            ELSE /\ pc' = "opened"
                 /\ DATA_FILE' = Matching(namelist, DataName)[1]
                 /\ VALUELABELS_FILE' = Matching(namelist, ValueLabelsName)[1]
                 /\ completed' = completed \cup {"open"}
                 /\ UNCHANGED fault
    /\ UNCHANGED <<namelist, dataContent, labelContent, data, value_labels,
                   var_names, labels, output>>
    /\ UNCHANGED normVars

\* lines 47-48: read_csv raises on content it cannot parse
ReadCsv ==
    /\ pc = "opened"
    /\ IF ~dataContent.ok
       THEN /\ pc' = "abort"
            /\ fault' = "ParserError"
            /\ UNCHANGED <<data, value_labels, completed>>
       ELSE IF ~labelContent.ok
            THEN /\ pc' = "abort"
                 /\ fault' = "ParserError"
                 /\ data' = [cols |-> dataContent.cols, rows |-> dataContent.rows]
                 /\ UNCHANGED <<value_labels, completed>>
            ELSE /\ pc' = "read"
                 /\ data' = [cols |-> dataContent.cols, rows |-> dataContent.rows]
                 /\ value_labels' = labelContent.recs
                 /\ completed' = completed \cup {"read"}
                 /\ UNCHANGED fault
    /\ UNCHANGED <<namelist, dataContent, labelContent, DATA_FILE,
                   VALUELABELS_FILE, var_names, labels, output>>
    /\ UNCHANGED normVars

IndexOf(names, name) == CHOOSE i \in 1..Len(names) : names[i] = name

\* data[names]: the columns of those names, in the order of names
SelectColumns(d, names) ==
    [cols |-> names,
     rows |-> [r \in 1..Len(d.rows) |->
                 [k \in 1..Len(names) |-> d.rows[r][IndexOf(d.cols, names[k])]]]]

\* line 51
data_cols(d) == SelectSeq(d.cols, LAMBDA c : ~Contains(c, Unnamed))

\* lines 50-52
FilterColumns ==
    /\ pc = "read"
    /\ data' = SelectColumns(data, data_cols(data))
    /\ pc' = "filtered"
    /\ completed' = completed \cup {"filter"}
    /\ UNCHANGED <<fault, namelist, dataContent, labelContent, DATA_FILE,
                   VALUELABELS_FILE, value_labels, var_names, labels, output>>
    /\ UNCHANGED normVars

RECURSIVE UniqueFrom(_, _)
UniqueFrom(s, n) ==
    IF n = 0 THEN <<>>
    ELSE LET u == UniqueFrom(s, n - 1)
         IN  IF s[n] \in Range(u) THEN u ELSE Append(u, s[n])

\* value_labels["VariableName"].unique(): in order of first appearance
Unique(s) == UniqueFrom(s, Len(s))

RECURSIVE BuildMapFirstWinsFrom(_, _)
BuildMapFirstWinsFrom(recs, n) ==
    IF n = 0 THEN [x \in {} |-> x]
    ELSE LET m == BuildMapFirstWinsFrom(recs, n - 1)
         IN  [x \in DOMAIN m \cup {recs[n].Value} |->
                 IF x \in DOMAIN m THEN m[x] ELSE recs[n].ValueLabel]

BuildMapFirstWins(recs) == BuildMapFirstWinsFrom(recs, Len(recs))

RECURSIVE BuildMapFrom(_, _)
BuildMapFrom(recs, n) ==
    IF n = 0 THEN [x \in {} |-> x]
    ELSE LET m == BuildMapFrom(recs, n - 1)
         IN  [x \in DOMAIN m \cup {recs[n].Value} |->
                 IF x = recs[n].Value THEN recs[n].ValueLabel ELSE m[x]]

\* lines 62-64: labels[var][row.Value] = row.ValueLabel for each row in order
BuildMap(recs) == BuildMapFrom(recs, Len(recs))

\* lines 55-64
BuildLabels ==
    /\ pc = "filtered"
    /\ var_names' = Unique([i \in 1..Len(value_labels) |-> value_labels[i].VariableName])
    /\ labels' = [v \in Range(var_names') |->
                    BuildMap(SelectSeq(value_labels, LAMBDA r : r.VariableName = v))]
    /\ pc' = "labelled"
    /\ completed' = completed \cup {"labels"}
    /\ UNCHANGED <<fault, namelist, dataContent, labelContent, DATA_FILE,
                   VALUELABELS_FILE, data, value_labels, output>>
    /\ UNCHANGED normVars

\* data[key]
Column(d, key) == [r \in 1..Len(d.rows) |-> d.rows[r][IndexOf(d.cols, key)]]

MapSeriesPassThrough(series, m) ==
    [r \in 1..Len(series) |->
        IF series[r] \in DOMAIN m THEN m[series[r]] ELSE series[r]]

\* Series.map(dict): a value that is no key of the dict becomes NaN
MapSeries(series, m) ==
    [r \in 1..Len(series) |->
        IF series[r] \in DOMAIN m THEN m[series[r]] ELSE NA]

Without(s, i) == [k \in 1..(Len(s) - 1) |-> IF k < i THEN s[k] ELSE s[k + 1]]

AssignColumnAtEnd(d, key, series) ==
    LET i == IndexOf(d.cols, key)
    IN  [cols |-> Append(Without(d.cols, i), key),
         rows |-> [r \in 1..Len(d.rows) |->
                     Append(Without(d.rows[r], i), series[r])]]

\* data[key] = series, for a key that is a column: the column keeps its place
AssignColumn(d, key, series) ==
    LET i == IndexOf(d.cols, key)
    IN  [cols |-> d.cols,
         rows |-> [r \in 1..Len(d.rows) |-> [d.rows[r] EXCEPT ![i] = series[r]]]]

RECURSIVE SubstituteSkipMissingFrom(_, _, _, _)
SubstituteSkipMissingFrom(d, keys, lab, i) ==
    IF i > Len(keys) THEN [d |-> d, ok |-> TRUE]
    ELSE IF keys[i] \notin Range(d.cols)
         THEN SubstituteSkipMissingFrom(d, keys, lab, i + 1)
         ELSE SubstituteSkipMissingFrom(
                  AssignColumn(d, keys[i], MapSeries(Column(d, keys[i]), lab[keys[i]])),
                  keys, lab, i + 1)

\* lines 66-67, from the i-th key on: data[key] raises KeyError for a key that
\* is no column, and the columns assigned before it stay assigned
RECURSIVE SubstituteFrom(_, _, _, _)
SubstituteFrom(d, keys, lab, i) ==
    IF i > Len(keys) THEN [d |-> d, ok |-> TRUE]
    ELSE IF keys[i] \notin Range(d.cols)
         THEN [d |-> d, ok |-> FALSE]
         ELSE SubstituteFrom(
                  AssignColumn(d, keys[i], MapSeries(Column(d, keys[i]), lab[keys[i]])),
                  keys, lab, i + 1)

SubstituteSkipMissing(d, keys, lab) == SubstituteSkipMissingFrom(d, keys, lab, 1)

\* lines 66-67: for key in labels.keys(): data[key] = data[key].map(labels[key])
SubstituteAll(d, keys, lab) == SubstituteFrom(d, keys, lab, 1)

SubstituteAfterSave ==
    /\ pc = "labelled"
    /\ output' = Append(output, data)
    /\ LET res == SubstituteAll(data, var_names, labels)
       IN  /\ data' = res.d
           /\ IF res.ok
              THEN /\ pc' = "substituted"
                   /\ completed' = completed \cup {"substitute"}
                   /\ UNCHANGED fault
              ELSE /\ pc' = "abort"
                   /\ fault' = "KeyError"
                   /\ UNCHANGED completed
    /\ UNCHANGED <<namelist, dataContent, labelContent, DATA_FILE,
                   VALUELABELS_FILE, value_labels, var_names, labels>>
    /\ UNCHANGED normVars

\* lines 66-67, with the fault that ends the run
Substitute ==
    /\ pc = "labelled"
    /\ LET res == SubstituteAll(data, var_names, labels)
       IN  /\ data' = res.d
           /\ IF res.ok
              THEN /\ pc' = "substituted"
                   /\ completed' = completed \cup {"substitute"}
                   /\ UNCHANGED fault
              ELSE /\ pc' = "abort"
                   /\ fault' = "KeyError"
                   /\ UNCHANGED completed
    /\ UNCHANGED <<namelist, dataContent, labelContent, DATA_FILE,
                   VALUELABELS_FILE, value_labels, var_names, labels, output>>
    /\ UNCHANGED normVars

\* line 104
Normalize ==
    /\ pc = "substituted"
    /\ data' = [data EXCEPT !.cols = [i \in 1..Len(data.cols) |-> clean_column(data.cols[i])]]
    /\ pc' = "normalized"
    /\ completed' = completed \cup {"normalize"}
    /\ UNCHANGED <<fault, namelist, dataContent, labelContent, DATA_FILE,
                   VALUELABELS_FILE, value_labels, var_names, labels, output>>
    /\ UNCHANGED normVars

\* lines 105-108
WriteCsv ==
    /\ pc = "normalized"
    /\ output' = Append(output, data)
    /\ pc' = "done"
    /\ completed' = completed \cup {"write"}
    /\ UNCHANGED <<fault, namelist, dataContent, labelContent, DATA_FILE,
                   VALUELABELS_FILE, data, value_labels, var_names, labels>>
    /\ UNCHANGED normVars

Next ==
    \/ OpenArchive
    \/ ReadCsv
    \/ FilterColumns
    \/ BuildLabels
    \/ Substitute
    \/ Normalize
    \/ WriteCsv

Spec == Init /\ [][Next]_vars

----------------------------------------------------------------------------
(* Properties of a run of clean_data *)

\* the names of the table as it leaves the Column Filter
FilteredNames == SelectSeq(dataContent.cols, LAMBDA c : ~Contains(c, Unnamed))

\* the variables the label file names
LabelledVariables == {labelContent.recs[i].VariableName : i \in 1..Len(labelContent.recs)}

\* the cell of the data file in row r under the column named name
OriginalCell(r, name) ==
    dataContent.rows[r][CHOOSE i \in 1..Len(dataContent.cols) : dataContent.cols[i] = name]

\* C1: once substitution has finished, in every column whose name is a key of
\* the LabelMap every cell holds the label its original value maps to, or the
\* missing marker when the original value is no key of that column's mapping.
C1_SubstitutedCells ==
    pc = "substituted" =>
        \A j \in 1..Len(data.cols) :
            data.cols[j] \in DOMAIN labels =>
                \A r \in 1..Len(data.rows) :
                    LET v == OriginalCell(r, data.cols[j])
                        m == labels[data.cols[j]]
                    IN  data.rows[r][j] = IF v \in DOMAIN m THEN m[v] ELSE NA

\* a substituted table with one code replaced by its label and another code,
\* unmapped, replaced by the missing marker
C1_Witness ==
    /\ pc = "substituted"
    /\ \E j, k \in 1..Len(data.cols) :
          /\ data.cols[j] \in DOMAIN labels
          /\ data.cols[k] \in DOMAIN labels
          /\ \E r \in 1..Len(data.rows) :
                /\ OriginalCell(r, data.cols[j]) \in DOMAIN labels[data.cols[j]]
                /\ data.rows[r][j] \in {"Public", "Private"}
                /\ OriginalCell(r, data.cols[k]) \notin DOMAIN labels[data.cols[k]]
                /\ data.rows[r][k] = NA

Placeholders == {i \in 1..Len(dataContent.cols) : StartsWith(dataContent.cols[i], Unnamed)}

\* C5: the Column Filter removes exactly the columns whose name starts with
\* "Unnamed": the others are kept in order with their cells, the column count
\* drops by the number of placeholder columns, the rows are unchanged.
C5_FilterRemovesPrefixed ==
    pc = "filtered" =>
        /\ data.cols = SelectSeq(dataContent.cols, LAMBDA c : ~StartsWith(c, Unnamed))
        /\ Len(data.cols) = Len(dataContent.cols) - Cardinality(Placeholders)
        /\ Len(data.rows) = Len(dataContent.rows)
        /\ \A r \in 1..Len(data.rows) : \A j \in 1..Len(data.cols) :
              data.rows[r][j] = OriginalCell(r, data.cols[j])
        /\ (Placeholders = {} => data = [cols |-> dataContent.cols, rows |-> dataContent.rows])

AllSteps == {"open", "read", "filter", "labels", "substitute", "normalize", "write"}

\* C6: the output file is written at most once, and only in a run in which
\* the archive lookup, the reading, the Column Filter, the label map, the
\* substitution and the normalization have all finished without a fault; a
\* run that has aborted, and a run on an archive without a "Data" or without a
\* "ValueLabels" member, has written nothing.
C6_WriteOnlyAfterAllSteps ==
    /\ Len(output) <= 1
    /\ output # <<>> =>
          /\ pc = "done"
          /\ fault = "none"
          /\ AllSteps \ {"write"} \subseteq completed
    /\ pc = "abort" => output = <<>>
    /\ (~HasMember(namelist, DataName) \/ ~HasMember(namelist, ValueLabelsName)) =>
          /\ output = <<>>
          /\ pc \in {"start", "abort"}

\* a run aborted at the substitution step, after four steps have finished
C6_Witness ==
    /\ pc = "abort"
    /\ fault = "KeyError"
    /\ completed = {"open", "read", "filter", "labels"}
    /\ output = <<>>

AfterLabels == {"labelled", "substituted", "normalized", "done"}

\* the positions of the records of the label table for variable v and value x
RecordsFor(v, x) ==
    {i \in 1..Len(value_labels) :
        value_labels[i].VariableName = v /\ value_labels[i].Value = x}

Min(S) == CHOOSE i \in S : \A k \in S : i <= k
Max(S) == CHOOSE i \in S : \A k \in S : i >= k

\* C7 as stated: among the records with the same VariableName and Value, the
\* LabelMap keeps the label of the first one in table order.
C7_FirstRecordWins ==
    pc \in AfterLabels =>
        \A v \in DOMAIN labels : \A x \in DOMAIN labels[v] :
            labels[v][x] = value_labels[Min(RecordsFor(v, x))].ValueLabel

\* C7 as amended: among the records with the same VariableName and Value, the
\* LabelMap keeps the label of the last one in table order; its keys are the
\* variables, and under each the values, that the table names.
C7_LastRecordWins ==
    pc \in AfterLabels =>
        /\ DOMAIN labels = {value_labels[i].VariableName : i \in 1..Len(value_labels)}
        /\ \A v \in DOMAIN labels :
              /\ DOMAIN labels[v] = {x \in CellValues : RecordsFor(v, x) # {}}
              /\ \A x \in DOMAIN labels[v] :
                    labels[v][x] = value_labels[Max(RecordsFor(v, x))].ValueLabel

\* a label map built from two records of one variable and value whose labels differ
C7_Witness ==
    /\ pc = "labelled"
    /\ \E i, j \in 1..Len(value_labels) :
          /\ i < j
          /\ value_labels[i].VariableName = value_labels[j].VariableName
          /\ value_labels[i].Value = value_labels[j].Value
          /\ value_labels[i].ValueLabel # value_labels[j].ValueLabel

\* C8: from the end of the Column Filter on, the column names of the table are
\* pairwise distinct, also after clean_column has rewritten them and in the
\* table written to the output file.
C8_DistinctColumnNames ==
    /\ pc \in {"filtered", "labelled", "substituted", "normalized", "done"} =>
          Distinct(data.cols)
    /\ \A k \in 1..Len(output) : Distinct(output[k].cols)

\* C10: substitution finishes only when every variable of the label table is a
\* column of the filtered table under its original name; otherwise the run
\* aborts with a lookup fault at the substitution step, with the column names
\* not normalized and nothing written. Substitution runs after the Column
\* Filter and before normalization.
C10_KeysMustBeColumns ==
    /\ "substitute" \in completed =>
          /\ LabelledVariables \subseteq Range(FilteredNames)
          /\ "filter" \in completed
    /\ "normalize" \in completed => "substitute" \in completed
    /\ (pc \in {"substituted", "normalized", "done"} \/ (pc = "abort" /\ fault = "KeyError")) =>
          /\ {"filter", "labels"} \subseteq completed
          /\ ("substitute" \in completed <=> LabelledVariables \subseteq Range(FilteredNames))
    /\ (pc = "abort" /\ fault = "KeyError") =>
          /\ ~(LabelledVariables \subseteq Range(FilteredNames))
          /\ completed = {"open", "read", "filter", "labels"}
          /\ data.cols = FilteredNames
          /\ output = <<>>

\* a run aborted at the substitution step because the label table names a
\* column that the Column Filter removed
C10_Witness ==
    /\ pc = "abort"
    /\ fault = "KeyError"
    /\ \E v \in LabelledVariables :
          /\ v \in Range(dataContent.cols)
          /\ v \notin Range(FilteredNames)

----------------------------------------------------------------------------
(* Properties of clean_column *)

HasUpperCase(s) == \E i \in 1..Len(s) : \E k \in 1..Len(UpperCase) : s[i] = UpperCase[k]

\* C3: clean_column returns what the eight rewrites, applied in their order,
\* make of the name: "Graduation Rate - Women (2020)" yields "gradrate_women",
\* the empty string yields the empty string, and so for the other worked
\* names; no space and no "/" is left after the third and fourth rewrite, no
\* upper-case letter after the sixth, and none of them in the result.
C3_RewritesInOrder ==
    npc \in {"cleaned", "recleaned"} =>
        /\ \A k \in 1..Len(Examples) : col = Examples[k].in => out = Examples[k].want
        /\ Len(steps) = 15
        /\ out = steps[15]
        /\ ~Contains(steps[3], <<" ">>)
        /\ ~Contains(steps[4], <<"/">>)
        /\ ~HasUpperCase(steps[6])
        /\ ~Contains(out, <<" ">>) /\ ~Contains(out, <<"/">>) /\ ~HasUpperCase(out)

\* the worked example of the specification
C3_Witness ==
    /\ npc = "cleaned"
    /\ col = GraduationExample
    /\ out = GradrateWomen

\* a pattern that one of the rewrites of clean_column searches for occurs in s
Reducible(s) ==
    \/ Contains(s, Possessive)
    \/ Contains(s, <<" ">>)
    \/ Contains(s, <<"/">>)
    \/ Contains(s, <<"_", "_">>)
    \/ HasUpperCase(s)
    \/ Contains(s, GraduationRate)
    \/ Contains(s, Within)
    \/ Contains(s, TwoOrMoreRaces)
    \/ Contains(s, OfInstitution)
    \/ Contains(s, Location)
    \/ Contains(s, OrPostOfficeBox)
    \/ Contains(s, Of)
    \/ Contains(s, ThatAre)
    \/ \E i, j \in 1..Len(s) : GroupAt(s, i, j)

\* C4 as stated: cleaning a cleaned name changes nothing.
C4_Idempotent ==
    npc = "recleaned" => out2 = out

\* C4 as amended: cleaning a cleaned name changes nothing when the cleaned
\* name holds no pattern that a rewrite searches for.
C4_IdempotentOnIrreducible ==
    (npc = "recleaned" /\ ~Reducible(out)) => out2 = out

\* a name that cleaning changed into a non-empty name without patterns
C4_Witness ==
    /\ npc = "recleaned"
    /\ ~Reducible(out)
    /\ out # col
    /\ out # <<>>
    /\ out2 = out

\* the distance of position i of s from the start of its run of underscores
RunOffset(s, i) ==
    i - (CHOOSE b \in 1..i :
            /\ \A k \in b..i : s[k] = "_"
            /\ (b = 1 \/ s[b - 1] # "_"))

\* s with every run of n underscores cut to ceil(n/2) underscores: of each
\* run the first, third, fifth ... underscore is kept
HalvedRuns(s) ==
    LET indexed == [i \in 1..Len(s) |-> <<i, s[i]>>]
        kept == SelectSeq(indexed, LAMBDA p : p[2] # "_" \/ RunOffset(s, p[1]) % 2 = 0)
    IN  [i \in 1..Len(kept) |-> kept[i][2]]

\* C9: the "__" rewrite turns every run of n underscores present at that step
\* into a run of ceil(n/2) underscores and touches nothing else.
C9_SinglePassCollapse ==
    npc \in {"cleaned", "recleaned"} => steps[5] = HalvedRuns(steps[4])

\* a run of three underscores at the "__" rewrite, and a result with "__"
C9_Witness ==
    /\ npc = "cleaned"
    /\ Contains(steps[4], <<"_", "_", "_">>)
    /\ Contains(steps[5], <<"_", "_">>)
    /\ Contains(out, <<"_", "_">>)

====
